---- MODULE Spec2Model ----
(***************************************************************************)
(* pytsx/goapi: an HTTP service over one "user" entity.                    *)
(*   cmd/api/main.go            route table and the /ping handler           *)
(*   controller (UserController) GetUsers, CreateUser, GetUser handlers     *)
(*   usecase (UserUsecase)       pass-through to the repository             *)
(*   repository/user_repo.go     the three SQL statements                   *)
(* The relational store is the external collaborator: it is modelled as a  *)
(* catalogue of relations, their rows, their serial counters and a health  *)
(* state, and it answers each statement the repository sends the way       *)
(* database/sql over a PostgreSQL driver answers it.                       *)
(***************************************************************************)
EXTENDS Integers, Sequences, FiniteSets, TLC

\* Largest serial value the `user` relation hands out in a run.
MaxSerial == 2

\* math.MaxInt of strconv.Atoi (strconv.IntSize = 32 build; TLC integers are
\* 32 bits wide, the 64-bit build differs only in this number).
IntMax == 2147483647

(***************************************************************************)
(* Values.                                                                 *)
(***************************************************************************)
\* A cell of a result row, as the driver hands it to Scan.
IntCell(n) == [t |-> "int", v |-> n]
TextCell(s) == [t |-> "text", v |-> s]
NullCell == [t |-> "null"]
TsCell == [t |-> "ts"]

\* error values (Go `error`); NoErr is the nil error.
NoErr == "nil"
ErrNoRows == "sql: no rows in result set"
ErrConnDone == "sql: connection is already closed"
ErrConn == "dial tcp: connection refused"
ErrBadConn == "driver: bad connection"
ErrUndefined == "pq: relation or column does not exist"
ErrConstraint == "pq: violates constraint"
ErrScanArgs == "sql: expected N destination arguments in Scan"
ErrScanNull == "sql: Scan error: converting NULL to string is unsupported"
ErrJSONSyntax == "unexpected EOF"
ErrJSONType == "json: cannot unmarshal into Go struct field"
ErrAtoiSyntax == "strconv.Atoi: invalid syntax"
ErrAtoiRange == "strconv.Atoi: value out of range"

\* model.User and its zero value.
User(id, name, email, img) == [ID |-> id, Name |-> name, Email |-> email, ImgURL |-> img]
ZeroUser == User(0, "", "", "")

\* *model.User: the nil pointer and a pointer to a value.
NilPtr == [nil |-> TRUE]
PtrTo(u) == [nil |-> FALSE, v |-> u]

\* []model.User: Go distinguishes the nil slice from an empty, non-nil one.
NilSlice == [nil |-> TRUE, elems |-> <<>>]
EmptySlice == [nil |-> FALSE, elems |-> <<>>]
AppendSlice(s, u) == [nil |-> FALSE, elems |-> Append(s.elems, u)]

(***************************************************************************)
(* The store: catalogue, constraints and the rows it is set up with.       *)
(***************************************************************************)
Range(f) == {f[i] : i \in DOMAIN f}

\* README / docs/DATABASE.md "Current Schema Structure": the basic users table.
BasicUsersCols == <<"id", "name", "email", "img_url">>
\* scripts/setup-database.sql: the users table with constraints and timestamps.
RecommendedUsersCols == <<"id", "name", "email", "img_url", "created_at", "updated_at">>
\* A relation answering to the names the insert statement uses. No script of
\* the repository creates it; a store may or may not hold one.
UserRelCols == <<"user_id", "user_name", "user_email", "user_imgurl">>

Schemas == {"basic", "recommended"}
EmptyFun == [x \in {} |-> x]

Catalog(sch, rel) ==
    ("users" :> (IF sch = "basic" THEN BasicUsersCols ELSE RecommendedUsersCols))
    @@ (IF rel THEN ("user" :> UserRelCols) ELSE EmptyFun)

\* CHECK (length(trim(name)) > 0)
NameCheck(s) == s \notin {"", " "}
\* CHECK (email ~ '^[A-Za-z0-9._%+-]+@[A-Za-z0-9.-]+\.[A-Za-z]{2,}$'), over the
\* e-mail texts that occur in the model.
WellFormedEmails ==
    {"john.doe@example.com", "jane.smith@example.com", "bob.wilson@example.com",
     "alice.johnson@example.com", "test@example.com", "bob@example.com"}
EmailCheck(s) == s \in WellFormedEmails
\* CHECK (img_url IS NULL OR img_url ~ '^https?://.*')
HttpURLs ==
    {"https://example.com/avatars/john.jpg", "https://example.com/avatars/jane.jpg",
     "https://example.com/avatars/alice.jpg", "https://example.com/avatar.jpg"}
ImgURLCheck(c) == c.t = "null" \/ c.v \in HttpURLs

\* A row of a relation with columns cols: the serial, three texts (or NULL),
\* and the defaulted timestamps where the relation has them.
MkRow(cols, id, name, email, img) ==
    [c \in Range(cols) |->
        IF c = cols[1] THEN IntCell(id)
        ELSE IF c = cols[2] THEN name
        ELSE IF c = cols[3] THEN email
        ELSE IF c = cols[4] THEN img
        ELSE TsCell]

\* The sample rows scripts/setup-database.sql inserts.
SampleRows(cols) ==
    << MkRow(cols, 1, TextCell("John Doe"), TextCell("john.doe@example.com"),
             TextCell("https://example.com/avatars/john.jpg")),
       MkRow(cols, 2, TextCell("Jane Smith"), TextCell("jane.smith@example.com"),
             TextCell("https://example.com/avatars/jane.jpg")),
       MkRow(cols, 3, TextCell("Bob Wilson"), TextCell("bob.wilson@example.com"),
             NullCell),
       MkRow(cols, 4, TextCell("Alice Johnson"), TextCell("alice.johnson@example.com"),
             TextCell("https://example.com/avatars/alice.jpg")) >>

\* Whether a candidate row passes the constraints of the schema.
Constraints(sch, cols, rows, row) ==
    \/ sch = "basic"
    \/ /\ NameCheck(row[cols[2]].v)
       /\ EmailCheck(row[cols[3]].v)
       /\ ImgURLCheck(row[cols[4]])
       /\ \A i \in DOMAIN rows : rows[i][cols[3]] # row[cols[3]]

(***************************************************************************)
(* The statements of repository/user_repo.go.                              *)
(***************************************************************************)
GetUsersStmt ==
    [op |-> "select", rel |-> "users", cols |-> <<"id", "name", "email", "img_url">>,
     where |-> <<>>, returning |-> <<>>]

CreateUserStmt ==
    [op |-> "insert", rel |-> "user",
     cols |-> <<"user_name", "user_email", "user_imgurl">>,
     where |-> <<>>, returning |-> <<"user_id">>]

GetUserStmt ==
    [op |-> "select", rel |-> "users", cols |-> <<"*">>,
     where |-> <<"id">>, returning |-> <<>>]

(***************************************************************************)
(* How the store answers a statement (database/sql over the driver).       *)
(***************************************************************************)
Healths == {"up", "down", "drop", "done"}

\* The columns a statement reads or writes.
StmtCols(cat, stmt) == IF stmt.cols = <<"*">> THEN cat[stmt.rel] ELSE stmt.cols

\* The server parses a statement against its catalogue.
ParseOK(cat, stmt) ==
    /\ stmt.rel \in DOMAIN cat
    /\ Range(StmtCols(cat, stmt)) \cup Range(stmt.where) \cup Range(stmt.returning)
          \subseteq Range(cat[stmt.rel])

\* db.Prepare / the parse step of db.Query.
PrepareErr(cat, h, stmt) ==
    IF h = "down" THEN ErrConn
    ELSE IF ~ParseOK(cat, stmt) THEN ErrUndefined
    ELSE NoErr

\* Executing a prepared statement on a connection in health h.
ExecErr(h) ==
    IF h = "drop" THEN ErrBadConn
    ELSE IF h = "done" THEN ErrConnDone
    ELSE NoErr

\* The result set of a select: one tuple of cells per matching row.
SelectRows(cat, tbl, stmt, args) ==
    LET cols == StmtCols(cat, stmt)
        Match(r) == \A i \in DOMAIN stmt.where : r[stmt.where[i]] = IntCell(args[i])
        hit == SelectSeq(tbl[stmt.rel], Match)
    IN  [i \in DOMAIN hit |-> [j \in DOMAIN cols |-> hit[i][cols[j]]]]

\* Mutant: the statement overwrites the newest row of the relation instead of
\* adding one.
InsertRowReplacing(cat, sch, tbl, ser, stmt, args) ==
    LET cols == cat[stmt.rel]
        id == ser[stmt.rel]
        row == [c \in Range(cols) |->
                   IF c = cols[1] THEN IntCell(id)
                   ELSE IF \E i \in DOMAIN stmt.cols : stmt.cols[i] = c
                        THEN TextCell(args[CHOOSE i \in DOMAIN stmt.cols : stmt.cols[i] = c])
                   ELSE IF c \in {"created_at", "updated_at"} THEN TsCell
                   ELSE NullCell]
        old == tbl[stmt.rel]
    IN  [tbl |-> [tbl EXCEPT ![stmt.rel] =
                     IF old = <<>> THEN <<row>>
                     ELSE SubSeq(old, 1, Len(old) - 1) \o <<row>>],
         ser |-> [ser EXCEPT ![stmt.rel] = @ + 1],
         err |-> NoErr,
         ret |-> [j \in DOMAIN stmt.returning |-> row[stmt.returning[j]]]]

\* The insert: takes the next serial value, checks the constraints, stores the
\* row. ret is the RETURNING tuple.
InsertRow(cat, sch, tbl, ser, stmt, args) ==
    LET cols == cat[stmt.rel]
        id == ser[stmt.rel]
        row == [c \in Range(cols) |->
                   IF c = cols[1] THEN IntCell(id)
                   ELSE IF \E i \in DOMAIN stmt.cols : stmt.cols[i] = c
                        THEN TextCell(args[CHOOSE i \in DOMAIN stmt.cols : stmt.cols[i] = c])
                   ELSE IF c \in {"created_at", "updated_at"} THEN TsCell
                   ELSE NullCell]
        ok == Constraints(sch, cols, tbl[stmt.rel], row)
    IN  [tbl |-> IF ok THEN [tbl EXCEPT ![stmt.rel] = Append(@, row)] ELSE tbl,
         ser |-> [ser EXCEPT ![stmt.rel] = @ + 1],
         err |-> IF ok THEN NoErr ELSE ErrConstraint,
         ret |-> [j \in DOMAIN stmt.returning |-> row[stmt.returning[j]]]]

\* Rows.Scan into destinations of the given Go types.
ScanErr(tuple, dests) ==
    IF Len(tuple) # Len(dests) THEN ErrScanArgs
    ELSE IF \E i \in DOMAIN tuple : tuple[i].t = "null" THEN ErrScanNull
    ELSE NoErr

\* The User a successful Scan(&ID, &Name, &Email, &ImgURL) leaves.
ScanUser(tuple) == User(tuple[1].v, tuple[2].v, tuple[3].v, tuple[4].v)

UserDests == <<"int", "string", "string", "string">>

(***************************************************************************)
(* repository/user_repo.go.  Each operation returns its Go results (ret,   *)
(* err), the store it leaves (tbl, ser), the statements it sent (sent) and *)
(* the number of prepared statements and result sets it opened and did not *)
(* close before returning (leaked).                                        *)
(***************************************************************************)
RECURSIVE ScanLoop(_, _, _, _)
\* user_repo.go:31-44, the rows.Next() loop from tuple i on: one userObj is
\* scanned into and appended by value.
ScanLoop(tuples, i, usersList, userObj) ==
    IF i > Len(tuples) THEN [ret |-> usersList, err |-> NoErr]
    ELSE LET e == ScanErr(tuples[i], UserDests)
             obj == ScanUser(tuples[i])
         IN  IF e # NoErr THEN [ret |-> EmptySlice, err |-> e]
             ELSE ScanLoop(tuples, i + 1, AppendSlice(usersList, obj), obj)

\* Mutant: the list statement empties the table it reads.
RepoGetUsersTruncating(cat, h, tbl, ser, cut) ==
    [ret |-> EmptySlice, err |-> PrepareErr(cat, h, GetUsersStmt),
     tbl |-> [tbl EXCEPT !["users"] = <<>>], ser |-> ser,
     sent |-> <<GetUsersStmt>>, leaked |-> 0]

\* cut: how many rows the connection delivers before it drops (health
\* "drop"); rows.Next() then reports the end of the rows.
RepoGetUsers(cat, h, tbl, ser, cut) ==
    LET qe == IF PrepareErr(cat, h, GetUsersStmt) # NoErr
              THEN PrepareErr(cat, h, GetUsersStmt)
              ELSE IF h = "done" THEN ErrConnDone ELSE NoErr
        all == SelectRows(cat, tbl, GetUsersStmt, <<>>)
        got == IF h = "drop" THEN SubSeq(all, 1, cut) ELSE all
        res == IF qe # NoErr THEN [ret |-> EmptySlice, err |-> qe]
               ELSE ScanLoop(got, 1, NilSlice, ZeroUser)
        \* rows.Close() at line 46 is skipped by the return at line 40; a Query
        \* that failed opened nothing.
        open == IF qe = NoErr /\ res.err # NoErr THEN 1 ELSE 0
    IN  [ret |-> res.ret, err |-> res.err, tbl |-> tbl, ser |-> ser,
         sent |-> <<GetUsersStmt>>, leaked |-> open]

\* user_repo.go:57-67 given the outcome of Prepare (pe), of sending the
\* statement (ee) and of the insert on the store (ins). done: the connection
\* dropped after the store had executed the insert. The error returns at lines
\* 58 and 63 come before query.Close() at line 66.
CreateUserResult(tbl, ser, pe, ee, ins, done) ==
    IF pe # NoErr
    THEN [ret |-> -1, err |-> pe, tbl |-> tbl, ser |-> ser,
          sent |-> <<CreateUserStmt>>, leaked |-> 0]
    ELSE IF ee # NoErr
    THEN [ret |-> -1, err |-> ee, tbl |-> IF done THEN ins.tbl ELSE tbl,
          ser |-> IF done THEN ins.ser ELSE ser,
          sent |-> <<CreateUserStmt>>, leaked |-> 1]
    ELSE IF ins.err # NoErr
    THEN [ret |-> -1, err |-> ins.err, tbl |-> ins.tbl, ser |-> ins.ser,
          sent |-> <<CreateUserStmt>>, leaked |-> 1]
    ELSE IF ScanErr(ins.ret, <<"int">>) # NoErr
    THEN [ret |-> -1, err |-> ScanErr(ins.ret, <<"int">>), tbl |-> ins.tbl,
          ser |-> ins.ser, sent |-> <<CreateUserStmt>>, leaked |-> 1]
    ELSE [ret |-> ins.ret[1].v, err |-> NoErr, tbl |-> ins.tbl, ser |-> ins.ser,
          sent |-> <<CreateUserStmt>>, leaked |-> 0]

\* landed: when the connection drops while the statement executes (health
\* "drop"), whether the store had already executed the insert.
RepoCreateUser(cat, sch, h, tbl, ser, user, landed) ==
    CreateUserResult(tbl, ser, PrepareErr(cat, h, CreateUserStmt), ExecErr(h),
                     InsertRow(cat, sch, tbl, ser, CreateUserStmt,
                               <<user.Name, user.Email, user.ImgURL>>),
                     h = "drop" /\ landed)

\* Mutant: a get-by-id that failed is issued a second time.
RepoGetUserRetrying(cat, h, tbl, ser, id) ==
    LET pe == PrepareErr(cat, h, GetUserStmt)
        rows == SelectRows(cat, tbl, GetUserStmt, <<id>>)
        se == IF ExecErr(h) # NoErr THEN ExecErr(h)
              ELSE IF Len(rows) = 0 THEN ErrNoRows
              ELSE ScanErr(rows[1], UserDests)
        e == IF pe # NoErr THEN pe ELSE se
    IN  IF e # NoErr
        THEN [ret |-> NilPtr, err |-> e, tbl |-> tbl, ser |-> ser,
              sent |-> <<GetUserStmt, GetUserStmt>>, leaked |-> 1]
        ELSE [ret |-> PtrTo(ScanUser(rows[1])), err |-> NoErr, tbl |-> tbl,
              ser |-> ser, sent |-> <<GetUserStmt>>, leaked |-> 0]

RepoGetUser(cat, h, tbl, ser, id) ==
    LET pe == PrepareErr(cat, h, GetUserStmt)
        rows == SelectRows(cat, tbl, GetUserStmt, <<id>>)
        \* QueryRow(id).Scan(...): the execution error, no row, or the row's Scan
        se == IF ExecErr(h) # NoErr THEN ExecErr(h)
              ELSE IF Len(rows) = 0 THEN ErrNoRows
              ELSE ScanErr(rows[1], UserDests)
        res == IF pe # NoErr THEN [ret |-> NilPtr, err |-> pe]
               ELSE IF se # NoErr
               THEN IF se = ErrConnDone THEN [ret |-> NilPtr, err |-> NoErr]
                    ELSE [ret |-> NilPtr, err |-> se]
               ELSE [ret |-> PtrTo(ScanUser(rows[1])), err |-> NoErr]
        \* query.Close() at line 92 is skipped by the returns at lines 87 and 89
        open == IF pe = NoErr /\ se # NoErr THEN 1 ELSE 0
    IN  [ret |-> res.ret, err |-> res.err, tbl |-> tbl, ser |-> ser,
         sent |-> <<GetUserStmt>>, leaked |-> open]

(***************************************************************************)
(* usecase (UserUsecase).  calls: the usecase methods invoked.             *)
(***************************************************************************)
\* A usecase method that hands the repository's results r back as they are.
PassThrough(method, r) ==
    [ret |-> r.ret, err |-> r.err, tbl |-> r.tbl, ser |-> r.ser, sent |-> r.sent,
     leaked |-> r.leaked, calls |-> <<method>>]

\* Each usecase method calls its repository method once; r is bound to the
\* results of that call.
UsecaseGetUsers(cat, h, tbl, ser, cut) ==
    CHOOSE u \in {PassThrough("GetUsers", r) :
                    r \in {RepoGetUsers(cat, h, tbl, ser, cut)}} : TRUE

\* Mutant: the identifier the store returned is not copied onto the user.
InsertedUserKeepingID(user, r) ==
    [ret |-> IF r.err # NoErr THEN ZeroUser ELSE user,
     err |-> r.err, tbl |-> r.tbl, ser |-> r.ser, sent |-> r.sent,
     leaked |-> r.leaked, calls |-> <<"CreateUser">>]

\* Mutant: the usecase returns the user with whatever the repository
\* returned as id, the error case included.
InsertedUserWithSentinel(user, r) ==
    [ret |-> [user EXCEPT !.ID = r.ret],
     err |-> r.err, tbl |-> r.tbl, ser |-> r.ser, sent |-> r.sent,
     leaked |-> r.leaked, calls |-> <<"CreateUser">>]

\* part_001:31-37 given the repository's results r: the zero User with the
\* error, or the user with the returned identifier.
InsertedUser(user, r) ==
    [ret |-> IF r.err # NoErr THEN ZeroUser ELSE [user EXCEPT !.ID = r.ret],
     err |-> r.err, tbl |-> r.tbl, ser |-> r.ser, sent |-> r.sent,
     leaked |-> r.leaked, calls |-> <<"CreateUser">>]

UsecaseCreateUser(cat, sch, h, tbl, ser, user, landed) ==
    CHOOSE u \in {InsertedUser(user, r) :
                    r \in {RepoCreateUser(cat, sch, h, tbl, ser, user, landed)}} : TRUE

\* Mutant: a repository error is swallowed and "no user" returned instead.
Swallowing(method, r) ==
    [ret |-> IF r.err # NoErr THEN NilPtr ELSE r.ret, err |-> NoErr,
     tbl |-> r.tbl, ser |-> r.ser, sent |-> r.sent,
     leaked |-> r.leaked, calls |-> <<method>>]
UsecaseGetUserSwallowing(cat, h, tbl, ser, id) ==
    Swallowing("GetUser", RepoGetUser(cat, h, tbl, ser, id))

UsecaseGetUser(cat, h, tbl, ser, id) ==
    CHOOSE u \in {PassThrough("GetUser", r) :
                    r \in {RepoGetUser(cat, h, tbl, ser, id)}} : TRUE

(***************************************************************************)
(* Requests on the wire.                                                   *)
(***************************************************************************)
\* The texts that occur as the last path segment of GET /user/<text>, and
\* their characters.
Chars(s) ==
    CASE s = "" -> <<>>
      [] s = "abc" -> <<"a", "b", "c">>
      [] s = "1" -> <<"1">>
      [] s = "2" -> <<"2">>
      [] s = "3" -> <<"3">>
      [] s = "999999" -> <<"9", "9", "9", "9", "9", "9">>
      [] s = "99999999999" -> <<"9", "9", "9", "9", "9", "9", "9", "9", "9", "9", "9">>
      [] s = "-1" -> <<"-", "1">>
      [] s = "+2" -> <<"+", "2">>
      [] s = "1a" -> <<"1", "a">>
IdTexts == {"", "abc", "1", "2", "3", "999999", "99999999999", "-1", "+2", "1a"}

\* JSON values of a request body.
JStr(s) == [t |-> "string", v |-> s]
JNum(n) == [t |-> "number", v |-> n]

\* test-api.sh "Test invalid JSON": {"name": "Invalid JSON"   (truncated)
BodyTruncated == [complete |-> FALSE, fields |-> ("name" :> JStr("Invalid JSON"))]
\* a field of the wrong type: {"name": 5, "email": "test@example.com"}
BodyWrongType ==
    [complete |-> TRUE,
     fields |-> ("name" :> JNum(5)) @@ ("email" :> JStr("test@example.com"))]
\* test-api.sh "Test 3"
BodyFull ==
    [complete |-> TRUE,
     fields |-> ("name" :> JStr("Test User")) @@ ("email" :> JStr("test@example.com"))
                @@ ("img_url" :> JStr("https://example.com/avatar.jpg"))]
\* API doc "Minimal request (without image URL)"
BodyMinimal ==
    [complete |-> TRUE,
     fields |-> ("name" :> JStr("Bob Wilson")) @@ ("email" :> JStr("bob@example.com"))]
\* the body of "Test 3" carrying a user_id as well
BodyWithID ==
    [complete |-> TRUE,
     fields |-> ("user_id" :> JNum(7)) @@ ("name" :> JStr("Test User"))
                @@ ("email" :> JStr("test@example.com"))
                @@ ("img_url" :> JStr("https://example.com/avatar.jpg"))]
\* a body without name
BodyNoName == [complete |-> TRUE, fields |-> ("email" :> JStr("test@example.com"))]
\* a body without email
BodyNoEmail == [complete |-> TRUE, fields |-> ("name" :> JStr("Test User"))]
NoBody == [complete |-> TRUE, fields |-> EmptyFun]

Bodies ==
    {BodyTruncated, BodyWrongType, BodyFull, BodyMinimal, BodyWithID, BodyNoName,
     BodyNoEmail}

Request(m, p, b) == [method |-> m, path |-> p, body |-> b]
Requests ==
    {Request("GET", <<"ping">>, NoBody), Request("GET", <<"users">>, NoBody)}
    \cup {Request("GET", <<"user", s>>, NoBody) : s \in IdTexts}
    \cup {Request("POST", <<"user">>, b) : b \in Bodies}

(***************************************************************************)
(* cmd/api/main.go: the route table, and the router's matching.            *)
(***************************************************************************)
\* Mutant: the health check registered under POST instead of GET.
RoutesPingAsPost ==
    << [method |-> "POST", pattern |-> <<"ping">>, handler |-> "Ping"],
       [method |-> "GET", pattern |-> <<"users">>, handler |-> "GetUsers"],
       [method |-> "GET", pattern |-> <<"user", ":id">>, handler |-> "GetUser"],
       [method |-> "POST", pattern |-> <<"user">>, handler |-> "CreateUser"] >>

Routes ==
    << [method |-> "GET", pattern |-> <<"ping">>, handler |-> "Ping"],
       [method |-> "GET", pattern |-> <<"users">>, handler |-> "GetUsers"],
       [method |-> "GET", pattern |-> <<"user", ":id">>, handler |-> "GetUser"],
       [method |-> "POST", pattern |-> <<"user">>, handler |-> "CreateUser"] >>

\* A named parameter matches one non-empty path segment.
Matches(route, req) ==
    /\ route.method = req.method
    /\ Len(route.pattern) = Len(req.path)
    /\ \A i \in DOMAIN route.pattern :
          IF route.pattern[i] = ":id" THEN req.path[i] # ""
          ELSE route.pattern[i] = req.path[i]

\* The handler a request is dispatched to, "none" when no route matches.
Route(req) ==
    IF \E i \in DOMAIN Routes : Matches(Routes[i], req)
    THEN Routes[CHOOSE i \in DOMAIN Routes : Matches(Routes[i], req)].handler
    ELSE "none"

\* ctx.Param("id"): the segment bound to :id.
Param(req) == req.path[2]

\* What the router answers by itself when no route matches: not found, or a
\* trailing-slash redirect.
NoRouteStatuses == {301, 404}

(***************************************************************************)
(* strconv.Atoi and ctx.BindJSON.                                          *)
(***************************************************************************)
Digits == {"0", "1", "2", "3", "4", "5", "6", "7", "8", "9"}
DigitVal(c) ==
    CASE c = "0" -> 0 [] c = "1" -> 1 [] c = "2" -> 2 [] c = "3" -> 3 [] c = "4" -> 4
      [] c = "5" -> 5 [] c = "6" -> 6 [] c = "7" -> 7 [] c = "8" -> 8 [] c = "9" -> 9

RECURSIVE ParseDigits(_, _, _)
\* The magnitude of the digits from position i on, acc so far: a number up to
\* IntMax, -1 for exactly IntMax + 1, -2 for more, -3 for a non-digit.
ParseDigits(cs, i, acc) ==
    IF i > Len(cs) THEN acc
    ELSE IF cs[i] \notin Digits THEN -3
    ELSE LET d == DigitVal(cs[i])
         IN  IF acc < 0 THEN -2
             ELSE IF acc > (IntMax - d) \div 10
             THEN IF acc = IntMax \div 10 /\ d = (IntMax % 10) + 1
                  THEN ParseDigits(cs, i + 1, -1)
                  ELSE -2
             ELSE ParseDigits(cs, i + 1, acc * 10 + d)

\* Mutant: a text that is not a decimal number converts to 0 without an error.
AtoiLenient(s) ==
    LET m == ParseDigits(Chars(s), 1, 0)
    IN  IF m = -3 THEN [v |-> 0, err |-> NoErr]
        ELSE IF m < 0 THEN [v |-> IntMax, err |-> ErrAtoiRange]
        ELSE [v |-> m, err |-> NoErr]

Atoi(s) ==
    LET cs == Chars(s)
        signed == cs # <<>> /\ cs[1] \in {"+", "-"}
        neg == cs # <<>> /\ cs[1] = "-"
        body == IF signed THEN Tail(cs) ELSE cs
        m == ParseDigits(body, 1, 0)
    IN  IF body = <<>> \/ m = -3 THEN [v |-> 0, err |-> ErrAtoiSyntax]
        ELSE IF m = -2 \/ (m = -1 /\ ~neg)
        THEN [v |-> IF neg THEN -IntMax - 1 ELSE IntMax, err |-> ErrAtoiRange]
        ELSE IF m = -1 THEN [v |-> -IntMax - 1, err |-> NoErr]
        ELSE [v |-> IF neg THEN -m ELSE m, err |-> NoErr]

\* encoding/json into model.User: a missing key or a null leaves the zero
\* value, a value of the wrong JSON type is an error.
FieldOf(body, k, t, zero) ==
    IF k \in DOMAIN body.fields /\ body.fields[k].t = t THEN body.fields[k].v ELSE zero

\* Mutant: a value of the wrong JSON type is skipped without an error.
BindJSONSkippingWrongTypes(body) ==
    IF ~body.complete THEN [user |-> ZeroUser, err |-> ErrJSONSyntax]
    ELSE [user |-> User(FieldOf(body, "user_id", "number", 0),
                        FieldOf(body, "name", "string", ""),
                        FieldOf(body, "email", "string", ""),
                        FieldOf(body, "img_url", "string", "")),
          err |-> NoErr]

BindJSON(body) ==
    LET wrong == \E k \in DOMAIN body.fields :
                    \/ k = "user_id" /\ body.fields[k].t \notin {"number", "null"}
                    \/ k \in {"name", "email", "img_url"}
                       /\ body.fields[k].t \notin {"string", "null"}
    IN  IF ~body.complete THEN [user |-> ZeroUser, err |-> ErrJSONSyntax]
        ELSE [user |-> User(FieldOf(body, "user_id", "number", 0),
                            FieldOf(body, "name", "string", ""),
                            FieldOf(body, "email", "string", ""),
                            FieldOf(body, "img_url", "string", "")),
              err |-> IF wrong THEN ErrJSONType ELSE NoErr]

(***************************************************************************)
(* controller (UserController) and the /ping handler: what one invocation  *)
(* answers and what it leaves.                                             *)
(***************************************************************************)
MsgMissingID == "Essa rota espera receber um id como parâmetro"
MsgNotNumeric == "Essa rota espera receber um id numérico"
MsgNotFound == "Nenhum usuário foi localizado com o id fornecido"

\* response bodies, as ctx.JSON is given them
HBody(k, m) == [t |-> "gin.H", key |-> k, msg |-> m]
ResponseBody(m) == [t |-> "model.Response", message |-> m]
ErrorBody(e) == [t |-> "error", err |-> e]
UserBody(u) == [t |-> "model.User", user |-> u]
ListBody(l) == IF l.nil THEN [t |-> "null"] ELSE [t |-> "array", elems |-> l.elems]

\* What ctx.JSON writes for a body: encoding/json renders a struct as an object
\* of its exported fields and a map as an object of its keys. The error values
\* of database/sql, fmt and the driver sentinel are pointers to structs with no
\* exported field; *pq.Error and *net.OpError have exported fields, none of
\* them named error. JSONKeys is the set of member names, JSONMember the text
\* under one of them.
PqErrorFields ==
    {"Severity", "Code", "Message", "Detail", "Hint", "Position",
     "InternalPosition", "InternalQuery", "Where", "Schema", "Table", "Column",
     "DataTypeName", "Constraint", "File", "Line", "Routine"}
OpErrorFields == {"Op", "Net", "Source", "Addr", "Err"}
JSONKeys(body) ==
    CASE body.t = "gin.H" -> {body.key}
      [] body.t = "model.Response" -> {"message"}
      [] body.t = "model.User" -> {"user_id", "name", "email", "img_url"}
      [] body.t = "error" ->
            IF body.err \in {ErrUndefined, ErrConstraint} THEN PqErrorFields
            ELSE IF body.err = ErrConn THEN OpErrorFields
            ELSE {}
      [] OTHER -> {}
JSONMember(body, k) ==
    CASE body.t = "gin.H" /\ k = body.key -> body.msg
      [] body.t = "model.Response" /\ k = "message" -> body.message
      [] body.t = "model.User" /\ k = "name" -> body.user.Name
      [] body.t = "model.User" /\ k = "email" -> body.user.Email
      [] body.t = "model.User" /\ k = "img_url" -> body.user.ImgURL
      [] OTHER -> ""

\* A response written before any usecase call: nothing sent, nothing changed.
Direct(status, body, tbl, ser) ==
    [status |-> status, body |-> body, tbl |-> tbl, ser |-> ser,
     sent |-> <<>>, calls |-> <<>>, leaked |-> 0, err |-> NoErr]
\* A response written after the usecase call with result r.
After(status, body, r) ==
    [status |-> status, body |-> body, tbl |-> r.tbl, ser |-> r.ser,
     sent |-> r.sent, calls |-> r.calls, leaked |-> r.leaked, err |-> r.err]

HandlePing(tbl, ser) == Direct(200, HBody("message", "pong"), tbl, ser)

\* part_002:25-30 given the usecase's results r
RespondGetUsers(r) ==
    IF r.err # NoErr THEN After(500, HBody("error", r.err), r)
    ELSE After(200, ListBody(r.ret), r)

\* Each handler calls its usecase method once; r is bound to the results of
\* that call.
HandleGetUsers(cat, h, tbl, ser, cut) ==
    CHOOSE o \in {RespondGetUsers(r) :
                    r \in {UsecaseGetUsers(cat, h, tbl, ser, cut)}} : TRUE

\* Mutant: a usecase error reported as the client's fault.
RespondCreateUserStoreErrAs400(tbl, ser, be, r) ==
    IF be # NoErr THEN Direct(400, ErrorBody(be), tbl, ser)
    ELSE IF r.err # NoErr THEN After(400, ErrorBody(r.err), r)
    ELSE After(201, UserBody(r.ret), r)

\* part_002:38-53 given the BindJSON error be and the usecase's results r
RespondCreateUser(tbl, ser, be, r) ==
    IF be # NoErr THEN Direct(400, ErrorBody(be), tbl, ser)
    ELSE IF r.err # NoErr THEN After(500, ErrorBody(r.err), r)
    ELSE After(201, UserBody(r.ret), r)

HandleCreateUser(cat, sch, h, tbl, ser, req, landed) ==
    CHOOSE o \in {RespondCreateUser(tbl, ser, b.err, r) :
                    b \in {BindJSON(req.body)},
                    r \in {UsecaseCreateUser(cat, sch, h, tbl, ser,
                                        BindJSON(req.body).user, landed)}} : TRUE

\* Mutant: the return after the "not numeric" answer is missing, so the
\* handler goes on to call the usecase.
RespondGetUserFallingThrough(tbl, ser, id, a, r) ==
    IF id = "" THEN Direct(400, ResponseBody(MsgMissingID), tbl, ser)
    ELSE IF a.err # NoErr THEN After(400, ResponseBody(MsgNotNumeric), r)
    ELSE IF r.err # NoErr THEN After(500, ErrorBody(r.err), r)
    ELSE IF r.ret.nil THEN After(404, ResponseBody(MsgNotFound), r)
    ELSE After(200, UserBody(r.ret.v), r)

\* part_002:58-89 given the id text, its conversion a and the usecase's
\* results r
RespondGetUser(tbl, ser, id, a, r) ==
    IF id = "" THEN Direct(400, ResponseBody(MsgMissingID), tbl, ser)
    ELSE IF a.err # NoErr THEN Direct(400, ResponseBody(MsgNotNumeric), tbl, ser)
    ELSE IF r.err # NoErr THEN After(500, ErrorBody(r.err), r)
    ELSE IF r.ret.nil THEN After(404, ResponseBody(MsgNotFound), r)
    ELSE After(200, UserBody(r.ret.v), r)

HandleGetUser(cat, h, tbl, ser, req) ==
    CHOOSE o \in {RespondGetUser(tbl, ser, Param(req), a, r) :
                    a \in {Atoi(Param(req))},
                    r \in {UsecaseGetUser(cat, h, tbl, ser, Atoi(Param(req)).v)}} : TRUE

(***************************************************************************)
(* State.                                                                  *)
(***************************************************************************)
VARIABLES
    schema,      \* which users schema the store was set up with
    hasUserRel,  \* whether the store holds a relation named user
    health,      \* the state of the connection to the store
    tables,      \* relation -> its rows, in storage order
    serial,      \* relation -> the next value of its serial column
    created,     \* the User records answered with 201, in order
    last,        \* the last exchange: request, handler, response and its trace
    proc,        \* the process: its position in main() and what it has set up
    inflight     \* the requests accepted so far, each with its handler's position

vars == <<schema, hasUserRel, health, tables, serial, created, last, proc, inflight>>

catalog == Catalog(schema, hasUserRel)

NoExchange ==
    [req |-> Request("", <<>>, NoBody), handler |-> "none", status |-> 0,
     body |-> [t |-> "none"], sent |-> <<>>, calls |-> <<>>, leaked |-> 0,
     err |-> NoErr, health |-> "up",
     before |-> [tbl |-> EmptyFun, ser |-> EmptyFun]]

\* The exchange of request req, dispatched to handler hd, with outcome o.
Exchange(req, hd, o) ==
    [req |-> req, handler |-> hd, status |-> o.status, body |-> o.body,
     sent |-> o.sent, calls |-> o.calls, leaked |-> o.leaked, err |-> o.err,
     health |-> health,
     before |-> [tbl |-> tables, ser |-> serial]]

\* main() once server.Run is serving: connected, components constructed,
\* routes registered.
Listening == [pc |-> "listening", conn |-> TRUE, wired |-> TRUE, routed |-> TRUE]

\* The process after main() has connected and wired the three components.
Init ==
    /\ schema \in Schemas
    /\ hasUserRel \in BOOLEAN
    /\ health = "up"
    /\ \E seeded \in BOOLEAN :
          /\ tables = ("users" :> (IF seeded THEN SampleRows(catalog["users"]) ELSE <<>>))
                      @@ (IF hasUserRel THEN ("user" :> <<>>) ELSE EmptyFun)
          /\ serial = ("users" :> (IF seeded THEN 5 ELSE 1))
                      @@ (IF hasUserRel THEN ("user" :> 1) ELSE EmptyFun)
    /\ created = <<>>
    /\ last = NoExchange
    /\ proc = Listening
    /\ inflight = <<>>

\* The connection changes state between two requests; last describes the
\* exchange of the latest step and is cleared by a step that is not one.
SetHealth ==
    /\ \E h \in Healths : h # health /\ health' = h
    /\ last' = NoExchange
    /\ UNCHANGED <<proc, inflight, schema, hasUserRel, tables, serial, created>>

\* The server answers req through handler hd with outcome o.
Served(req, hd, o) ==
    /\ last' = Exchange(req, hd, o)
    /\ tables' = o.tbl
    /\ serial' = o.ser

Ping ==
    \E req \in Requests :
        /\ Route(req) = "Ping"
        /\ last' = Exchange(req, "Ping", HandlePing(tables, serial))
        /\ UNCHANGED <<proc, inflight, schema, hasUserRel, health, tables, serial, created>>

GetUsers ==
    \E req \in Requests, cut \in 0..Len(tables["users"]) :
        /\ Route(req) = "GetUsers"
        /\ Served(req, "GetUsers", HandleGetUsers(catalog, health, tables, serial, cut))
        /\ UNCHANGED <<proc, inflight, schema, hasUserRel, health, created>>

CreateUser ==
    \E req \in Requests, landed \in BOOLEAN :
        /\ Route(req) = "CreateUser"
        /\ \A r \in DOMAIN serial : serial[r] <= MaxSerial + Len(SampleRows(BasicUsersCols))
        /\ hasUserRel => serial["user"] <= MaxSerial
        /\ Served(req, "CreateUser",
                  HandleCreateUser(catalog, schema, health, tables, serial, req, landed))
        /\ created' = IF last'.status = 201 THEN Append(created, last'.body.user)
                      ELSE created
        /\ UNCHANGED <<proc, inflight, schema, hasUserRel, health>>

GetUser ==
    \E req \in Requests :
        /\ Route(req) = "GetUser"
        /\ Served(req, "GetUser", HandleGetUser(catalog, health, tables, serial, req))
        /\ UNCHANGED <<proc, inflight, schema, hasUserRel, health, created>>

\* A request no route matches is answered by the router; no handler runs.
NoRoute ==
    \E req \in Requests, st \in NoRouteStatuses :
        /\ Route(req) = "none"
        /\ last' = Exchange(req, "none", Direct(st, [t |-> "router"], tables, serial))
        /\ UNCHANGED <<proc, inflight, schema, hasUserRel, health, tables, serial, created>>

Next == SetHealth \/ Ping \/ GetUsers \/ CreateUser \/ GetUser \/ NoRoute

Spec == Init /\ [][Next]_vars

(***************************************************************************)
(* The process from the start of main(), serving requests concurrently:    *)
(* each accepted request runs its handler in a goroutine of its own, up to *)
(* its store call and then from the call's return to the response.         *)
(***************************************************************************)
\* how many requests the server accepts in a run
MaxRequests == 2

\* main() after gin.Default(), before ConnectDB
Started == [pc |-> "started", conn |-> FALSE, wired |-> FALSE, routed |-> FALSE]

\* db.ConnectDB(): opens the pool and verifies the connection, so it fails
\* when the store cannot be reached.
ConnectErr(h) == IF h = "down" THEN ErrConn ELSE NoErr

\* Mutant: the connection error is ignored.
AfterConnectIgnoringErr(p, err) == [p EXCEPT !.pc = "connected", !.conn = (err = NoErr)]

\* main.go:14-17: panic on a connection error, go on otherwise
AfterConnect(p, err) ==
    IF err # NoErr THEN [p EXCEPT !.pc = "panicked"]
    ELSE [p EXCEPT !.pc = "connected", !.conn = TRUE]

ConnectDB ==
    /\ proc.pc = "started"
    /\ proc' = AfterConnect(proc, ConnectErr(health))
    /\ UNCHANGED <<inflight, schema, hasUserRel, health, tables, serial, created, last>>

\* main.go:19-21: repository, usecase and controller are constructed
Wire ==
    /\ proc.pc = "connected"
    /\ proc' = [proc EXCEPT !.pc = "wired", !.wired = TRUE]
    /\ UNCHANGED <<inflight, schema, hasUserRel, health, tables, serial, created, last>>

\* main.go:23-31
RegisterRoutes ==
    /\ proc.pc = "wired"
    /\ proc' = [proc EXCEPT !.pc = "routed", !.routed = TRUE]
    /\ UNCHANGED <<inflight, schema, hasUserRel, health, tables, serial, created, last>>

\* main.go:33
Run ==
    /\ proc.pc = "routed"
    /\ proc' = [proc EXCEPT !.pc = "listening"]
    /\ UNCHANGED <<inflight, schema, hasUserRel, health, tables, serial, created, last>>

\* The requests the serving process is sent.
ServeRequests ==
    {Request("GET", <<"ping">>, NoBody), Request("GET", <<"users">>, NoBody),
     Request("GET", <<"user", "1">>, NoBody), Request("GET", <<"user", "abc">>, NoBody),
     Request("POST", <<"user">>, BodyFull), Request("POST", <<"user">>, BodyMinimal),
     Request("POST", <<"user">>, BodyTruncated)}

\* The handler of req run on the store as given.
Handle(req, cat, sch, h, tbl, ser, cut, landed) ==
    CASE Route(req) = "Ping" -> HandlePing(tbl, ser)
      [] Route(req) = "GetUsers" -> HandleGetUsers(cat, h, tbl, ser, cut)
      [] Route(req) = "CreateUser" -> HandleCreateUser(cat, sch, h, tbl, ser, req, landed)
      [] Route(req) = "GetUser" -> HandleGetUser(cat, h, tbl, ser, req)

\* Mutant: a handler that gives up on its store call at once and answers.
WaitingTimedOut(req, pc) ==
    [req |-> req, pc |-> pc, status |-> IF pc = "calling" THEN 504 ELSE 0,
     body |-> [t |-> "none"], err |-> NoErr]

\* A request whose handler has written no response yet: accepted, or blocked
\* in its store call (calling).
Waiting(req, pc) ==
    [req |-> req, pc |-> pc, status |-> 0, body |-> [t |-> "none"], err |-> NoErr]
\* A request whose handler returned with outcome o.
Answered(req, o) ==
    [req |-> req, pc |-> "responded", status |-> o.status, body |-> o.body,
     err |-> o.err]

Accept ==
    \E req \in ServeRequests :
        /\ proc.pc = "listening"
        /\ Len(inflight) < MaxRequests
        /\ inflight' = Append(inflight, Waiting(req, "accepted"))
        /\ UNCHANGED <<proc, schema, hasUserRel, health, tables, serial, created, last>>

\* The handler of request i runs up to its store call: outcome o is its
\* response when it makes none.
BeginWith(i, o) ==
    inflight' = [inflight EXCEPT ![i] =
                    IF o.calls = <<>> THEN Answered(@.req, o)
                    ELSE Waiting(@.req, "calling")]
Begin(i) ==
    /\ i \in DOMAIN inflight
    /\ inflight[i].pc = "accepted"
    /\ \E o \in {Handle(inflight[i].req, catalog, schema, health, tables, serial,
                        0, FALSE)} : BeginWith(i, o)
    /\ UNCHANGED <<proc, schema, hasUserRel, health, tables, serial, created, last>>

\* The store call of request i returns and its handler writes the response.
FinishWith(i, o) ==
    /\ inflight' = [inflight EXCEPT ![i] = Answered(@.req, o)]
    /\ tables' = o.tbl
    /\ serial' = o.ser
    /\ created' = IF o.status = 201 THEN Append(created, o.body.user) ELSE created
Finish(i) ==
    /\ i \in DOMAIN inflight
    /\ inflight[i].pc = "calling"
    /\ \E cut \in 0..Len(tables["users"]), landed \in BOOLEAN :
          \E o \in {Handle(inflight[i].req, catalog, schema, health, tables,
                          serial, cut, landed)} : FinishWith(i, o)
    /\ UNCHANGED <<proc, schema, hasUserRel, health, last>>

Begins == \E i \in 1..MaxRequests : Begin(i)
Finishes == \E i \in 1..MaxRequests : Finish(i)

\* The store is reachable or not when the process starts; it holds the
\* relation the insert addresses.
InitServe ==
    /\ schema \in Schemas
    /\ hasUserRel = TRUE
    /\ health \in {"up", "down"}
    /\ tables = ("users" :> <<>>) @@ ("user" :> <<>>)
    /\ serial = ("users" :> 1) @@ ("user" :> 1)
    /\ created = <<>>
    /\ last = NoExchange
    /\ proc = Started
    /\ inflight = <<>>

NextServe ==
    ConnectDB \/ Wire \/ RegisterRoutes \/ Run \/ Accept \/ Begins \/ Finishes
       \/ SetHealth

\* Every store call eventually returns and every handler that can take a step
\* eventually takes it.
SpecServe ==
    /\ InitServe
    /\ [][NextServe]_vars
    /\ \A i \in 1..MaxRequests : WF_vars(Begin(i)) /\ WF_vars(Finish(i))

(***************************************************************************)
(* Properties.                                                             *)
(***************************************************************************)
\* The last exchange was a GET /user/<text>, a POST /user, ...
IsGetUserReq(req) == req.method = "GET" /\ Len(req.path) = 2 /\ req.path[1] = "user"
IsCreateReq(req) == req.method = "POST" /\ req.path = <<"user">>
IsListReq(req) == req.method = "GET" /\ req.path = <<"users">>
IsPingReq(req) == req.method = "GET" /\ req.path = <<"ping">>

\* The texts of IdTexts that are decimal integers in the int range, and the
\* integer each denotes.
IntegerTexts == {"1", "2", "3", "999999", "-1", "+2"}
IntegerOf(s) ==
    CASE s = "1" -> 1 [] s = "2" -> 2 [] s = "3" -> 3 [] s = "999999" -> 999999
      [] s = "-1" -> -1 [] s = "+2" -> 2

\* The request left the store as it found it and went no further than the
\* controller.
StoreUntouched ==
    /\ last.calls = <<>>
    /\ last.sent = <<>>
    /\ tables = last.before.tbl
    /\ serial = last.before.ser

\* The rows of users whose id is n, before the last request.
UsersWithID(n) ==
    {i \in DOMAIN last.before.tbl["users"] : last.before.tbl["users"][i]["id"] = IntCell(n)}

\* C1: round trip. A GET /user/<id> for the id of a record an earlier POST /user
\* returned with 201 is answered 200 with that record (stated for the basic
\* schema and a healthy store).
C1_RoundTrip ==
    (/\ IsGetUserReq(last.req)
     /\ last.req.path[2] \in IntegerTexts
     /\ schema = "basic"
     /\ last.health = "up")
    => \A i \in DOMAIN created :
          created[i].ID = IntegerOf(last.req.path[2])
          => last.status = 200 /\ last.body = UserBody(created[i])

\* C2: GET /user/<n> for a well-formed integer n that no row of users has, on a
\* healthy store, is answered 404 with the not-found message.
C2_MissingRowIs404 ==
    (/\ IsGetUserReq(last.req)
     /\ last.req.path[2] \in IntegerTexts
     /\ last.health = "up"
     /\ UsersWithID(IntegerOf(last.req.path[2])) = {})
    => last.status = 404 /\ last.body = ResponseBody(MsgNotFound)

\* A payload the documented users schema accepts: name and email present, and
\* the row passes the constraints of users.
ValidPayload(u) ==
    /\ u.Name # ""
    /\ u.Email # ""
    /\ Constraints(schema, catalog["users"], last.before.tbl["users"],
                   MkRow(catalog["users"], 0, TextCell(u.Name), TextCell(u.Email),
                         TextCell(u.ImgURL)))

\* C3: a POST /user with a valid payload, on a healthy store, is answered 201
\* with the payload's name, email and img_url and a positive user_id that no
\* earlier create returned.
C3_ValidCreateIs201 ==
    (/\ IsCreateReq(last.req)
     /\ last.req.body \in {BodyFull, BodyMinimal, BodyWithID}
     /\ ValidPayload(BindJSON(last.req.body).user)
     /\ last.health = "up")
    => /\ last.status = 201
       /\ last.body.t = "model.User"
       /\ last.body.user.Name = BindJSON(last.req.body).user.Name
       /\ last.body.user.Email = BindJSON(last.req.body).user.Email
       /\ last.body.user.ImgURL = BindJSON(last.req.body).user.ImgURL
       /\ last.body.user.ID > 0
       /\ \A i \in 1..(Len(created) - 1) : created[i].ID # last.body.user.ID

\* C4: a GET /users answered 200 (healthy store) lists every record an earlier
\* POST /user returned with 201.
C4_ListHasCreated ==
    (IsListReq(last.req) /\ last.status = 200 /\ last.health = "up")
    => /\ last.body.t \in {"array", "null"}
       /\ \A i \in DOMAIN created :
             /\ last.body.t = "array"
             /\ \E j \in DOMAIN last.body.elems : last.body.elems[j] = created[i]

\* C5: GET /users on an empty users table, the query succeeding, is answered
\* 200 with an empty array, not null.
C5_EmptyListIsArray ==
    (/\ IsListReq(last.req)
     /\ last.before.tbl["users"] = <<>>
     /\ last.health = "up")
    => /\ last.status = 200
       /\ last.body = [t |-> "array", elems |-> <<>>]

\* C6: GET /user/<text> where the text is not an integer in range is answered
\* 400 with the expected-numeric message, and neither the usecase nor the
\* store is reached.
C6_NonNumericIs400 ==
    (/\ IsGetUserReq(last.req)
     /\ last.req.path[2] # ""
     /\ last.req.path[2] \notin IntegerTexts)
    => /\ last.handler = "GetUser"
       /\ last.status = 400
       /\ last.body = ResponseBody(MsgNotNumeric)
       /\ StoreUntouched

C6_Witness ==
    /\ last.req = Request("GET", <<"user", "99999999999">>, NoBody)
    /\ last.handler = "GetUser"
    /\ last.status = 400
    /\ Len(tables["users"]) > 0

\* C7: GET /user/ (empty id segment) reaches the GetUser handler and is
\* answered 400 with the missing-id message.
C7_EmptyIDIs400 ==
    last.req = Request("GET", <<"user", "">>, NoBody)
    => /\ last.handler = "GetUser"
       /\ last.status = 400
       /\ last.body = ResponseBody(MsgMissingID)

\* The bodies that do not deserialize into the User shape.
MalformedBodies == {BodyTruncated, BodyWrongType}

\* C8: a POST /user whose body does not deserialize is answered 400, the
\* usecase is not called and the store is unchanged.
C8_MalformedBodyIs400 ==
    (IsCreateReq(last.req) /\ last.req.body \in MalformedBodies)
    => /\ last.handler = "CreateUser"
       /\ last.status = 400
       /\ StoreUntouched

C8_Witness ==
    /\ IsCreateReq(last.req)
    /\ last.req.body = BodyWrongType
    /\ last.status = 400
    /\ hasUserRel
    /\ last.health = "up"

\* C9: GET /ping is answered 200 {"message":"pong"} in every state of the
\* store, and never touches it.
C9_PingIsPong ==
    IsPingReq(last.req)
    => /\ last.status = 200
       /\ last.body = HBody("message", "pong")
       /\ StoreUntouched

C9_Witness ==
    /\ IsPingReq(last.req)
    /\ last.health = "down"
    /\ last.status = 200

\* C10: in get-by-id a store failure other than "zero rows" (here: the row
\* exists and the connection is down, dropped or done) is answered 500, never
\* 404.
C10_StoreFailureIs500 ==
    (/\ IsGetUserReq(last.req)
     /\ last.req.path[2] \in IntegerTexts
     /\ UsersWithID(IntegerOf(last.req.path[2])) # {}
     /\ last.health # "up")
    => last.status = 500

\* C11: every prepared statement and result set a repository call opens is
\* released before the call returns, on every path: no exchange leaves one
\* open.
C11_NothingLeftOpen == last.leaked = 0

\* C12: on a store set up with the recommended script (users with six
\* columns), GET /user/<n> for the id n of an existing row, on a healthy store,
\* is answered 200 with that row's user_id, name, email and img_url (stated for
\* rows whose img_url is not NULL).
C12_GetByIDOnRecommendedSchema ==
    (/\ IsGetUserReq(last.req)
     /\ last.req.path[2] \in IntegerTexts
     /\ schema = "recommended"
     /\ last.health = "up")
    => \A i \in UsersWithID(IntegerOf(last.req.path[2])) :
          LET row == last.before.tbl["users"][i]
          IN  row["img_url"] # NullCell
              => /\ last.status = 200
                 /\ last.body = UserBody(User(row["id"].v, row["name"].v,
                                              row["email"].v, row["img_url"].v))

\* C13: GET /users on a healthy store is answered 200 whatever rows the users
\* table holds, rows with a NULL img_url included.
C13_ListWithNullImgURL ==
    (/\ IsListReq(last.req)
     /\ last.health = "up"
     /\ \E i \in DOMAIN last.before.tbl["users"] :
           last.before.tbl["users"][i]["img_url"] = NullCell)
    => last.status = 200

\* C14: every 500 response has a body that is a JSON object with the single
\* member error, holding the message of the error the store call returned.
C14_ErrorBodyShape ==
    last.status = 500
    => /\ JSONKeys(last.body) = {"error"}
       /\ JSONMember(last.body, "error") = last.err

IsPrefix(a, b) == Len(a) <= Len(b) /\ SubSeq(b, 1, Len(a)) = a

\* C16: in every step, each relation keeps every row it had, in place and
\* with the same id, name, email and img_url, and no two rows of a relation
\* have the same id: rows are only ever added, each with an id of its own.
C16_RowsNeverChange ==
    [][\A r \in DOMAIN tables :
          /\ IsPrefix(tables[r], tables'[r])
          /\ \A i, j \in DOMAIN tables'[r] :
                tables'[r][i][catalog[r][1]] = tables'[r][j][catalog[r][1]] => i = j]_vars

\* A create that added a row to a relation already holding one.
C16_Witness ==
    /\ IsCreateReq(last.req)
    /\ last.status = 201
    /\ last.before.tbl["user"] # <<>>
    /\ Len(tables["user"]) = Len(last.before.tbl["user"]) + 1
    /\ IsPrefix(last.before.tbl["user"], tables["user"])

\* C17: for list, create and get-by-id, on the store as it stands and for
\* every argument, the usecase call returns exactly the error the repository
\* call returns (nil when it returns nil); and the error the controller got
\* in the last get-by-id exchange is the one the repository returned for it.
C17_UsecasePropagatesErrors ==
    /\ \A cut \in 0..Len(tables["users"]) :
          UsecaseGetUsers(catalog, health, tables, serial, cut).err
             = RepoGetUsers(catalog, health, tables, serial, cut).err
    /\ \A b \in Bodies, landed \in BOOLEAN :
          UsecaseCreateUser(catalog, schema, health, tables, serial,
                            BindJSON(b).user, landed).err
             = RepoCreateUser(catalog, schema, health, tables, serial,
                              BindJSON(b).user, landed).err
    /\ \A s \in IntegerTexts :
          UsecaseGetUser(catalog, health, tables, serial, IntegerOf(s)).err
             = RepoGetUser(catalog, health, tables, serial, IntegerOf(s)).err
    /\ last.calls = <<"GetUser">>
       => last.err = RepoGetUser(catalog, last.health, last.before.tbl,
                                 last.before.ser, IntegerOf(last.req.path[2])).err

\* A get-by-id on a connection that is down: the repository returns the
\* connection error and the controller received that same error.
C17_Witness ==
    /\ last.calls = <<"GetUser">>
    /\ last.health = "down"
    /\ RepoGetUser(catalog, last.health, last.before.tbl, last.before.ser,
                   IntegerOf(last.req.path[2])).err = ErrConn
    /\ last.err = ErrConn
    /\ last.status = 500

\* C18: when a POST /user whose body carries a user_id is answered 201, no
\* statement sent to the store names an id column, the new row's id is the
\* next value of the relation's serial, and the response's user_id is that
\* value.
C18_SuppliedIDIgnored ==
    (/\ IsCreateReq(last.req)
     /\ "user_id" \in DOMAIN last.req.body.fields
     /\ last.status = 201)
    => LET rel == last.sent[1].rel
           new == tables[rel][Len(tables[rel])]
       IN  /\ Len(last.sent) = 1
           /\ \A i \in DOMAIN last.sent[1].cols :
                 last.sent[1].cols[i] # catalog[rel][1]
           /\ Len(tables[rel]) = Len(last.before.tbl[rel]) + 1
           /\ new[catalog[rel][1]] = IntCell(last.before.ser[rel])
           /\ last.body.user.ID = last.before.ser[rel]

\* A create carrying user_id 7 answered 201 with another, store-generated id.
C18_Witness ==
    /\ IsCreateReq(last.req)
    /\ last.req.body = BodyWithID
    /\ last.status = 201
    /\ last.body.user.ID = last.before.ser["user"]
    /\ last.body.user.ID # BindJSON(BodyWithID).user.ID

\* C19: on a store with the recommended schema, a POST /user with a valid name
\* and email and no img_url, the connection healthy and the email not yet
\* stored, is answered 201 (stated for a store where the insert's relation
\* exists).
C19_CreateWithoutImgURL ==
    (/\ IsCreateReq(last.req)
     /\ last.req.body = BodyMinimal
     /\ schema = "recommended"
     /\ hasUserRel
     /\ last.health = "up"
     /\ \A i \in DOMAIN last.before.tbl["user"] :
           last.before.tbl["user"][i]["user_email"]
              # TextCell(BindJSON(BodyMinimal).user.Email))
    => /\ last.status = 201
       /\ last.body.t = "model.User"
       /\ last.body.user.Name = BindJSON(BodyMinimal).user.Name

\* C20: under the basic schema, a POST /user whose body is well-formed JSON
\* but lacks name or lacks email is not answered 201 and adds no row.
C20_NameAndEmailRequired ==
    (/\ IsCreateReq(last.req)
     /\ last.req.body.complete
     /\ BindJSON(last.req.body).err = NoErr
     /\ \/ "name" \notin DOMAIN last.req.body.fields
        \/ "email" \notin DOMAIN last.req.body.fields
     /\ schema = "basic")
    => /\ last.status # 201
       /\ tables = last.before.tbl

\* The number of elements of a list response body (null has none).
ListLen(body) == IF body.t = "array" THEN Len(body.elems) ELSE 0

\* C21: the list is all-or-nothing. A GET /users is answered 200 only with
\* one element per row of users, and otherwise 500: never 200 with a part of
\* the rows.
C21_ListAllOrNothing ==
    IsListReq(last.req)
    => /\ last.status \in {200, 500}
       /\ last.status = 200 => ListLen(last.body) = Len(last.before.tbl["users"])
       /\ last.err # NoErr => last.status = 500

\* C22: a list operation that returns no error returns one User per row of
\* users, in storage order, the i-th carrying the i-th row's id, name, email
\* and img_url.
C22_ListMatchesRows ==
    (IsListReq(last.req) /\ last.err = NoErr)
    => LET rows == last.before.tbl["users"]
       IN  /\ ListLen(last.body) = Len(rows)
           /\ \A i \in 1..ListLen(last.body) :
                 last.body.elems[i] = User(rows[i]["id"].v, rows[i]["name"].v,
                                           rows[i]["email"].v, rows[i]["img_url"].v)

\* C24: no retries. An exchange sends at most one statement: none for /ping,
\* for an unmatched route and for a request answered 400; exactly the select
\* of the list, the insert of the create or the select of the get-by-id
\* otherwise, also when the statement failed.
C24_AtMostOneStatement ==
    /\ Len(last.sent) <= 1
    /\ last.handler \in {"Ping", "none"} => last.sent = <<>>
    /\ last.status = 400 => last.sent = <<>>
    /\ last.handler = "GetUsers" => last.sent = <<GetUsersStmt>>
    /\ (last.handler = "CreateUser" /\ last.status # 400)
       => last.sent = <<CreateUserStmt>>
    /\ (last.handler = "GetUser" /\ last.status # 400) => last.sent = <<GetUserStmt>>

\* A get-by-id whose statement failed: it was sent once.
C24_Witness ==
    /\ last.handler = "GetUser"
    /\ last.status = 500
    /\ last.err # NoErr
    /\ last.sent = <<GetUserStmt>>

\* C25: GET /ping, GET /users and GET /user/:id leave every relation's rows
\* and serial as they were, whatever the answer.
C25_ReadsLeaveStoreUnchanged ==
    last.handler \in {"Ping", "GetUsers", "GetUser"}
    => /\ tables = last.before.tbl
       /\ serial = last.before.ser

\* A list that failed on a table holding rows: the rows are still there.
C25_Witness ==
    /\ last.handler = "GetUsers"
    /\ last.status = 500
    /\ last.before.tbl["users"] # <<>>
    /\ tables = last.before.tbl

\* C26: a user handler answers with one of its statuses (list 200 or 500;
\* get-by-id 200, 400, 404 or 500; create 201, 400 or 500); after a 400 it has
\* made no usecase call; a usecase error is answered 500 and nothing else; the
\* nil user of the not-found path is answered 404 with the message, and a 200
\* of get-by-id carries a User.
C26_OneResponsePerHandler ==
    /\ last.handler = "GetUsers" => last.status \in {200, 500}
    /\ last.handler = "GetUser" => last.status \in {200, 400, 404, 500}
    /\ last.handler = "CreateUser" => last.status \in {201, 400, 500}
    /\ last.status = 400 => last.calls = <<>>
    /\ last.err # NoErr => last.status = 500
    /\ last.status = 404 /\ last.handler = "GetUser"
       => last.body = ResponseBody(MsgNotFound)
    /\ last.status = 200 /\ last.handler = "GetUser" => last.body.t = "model.User"

\* A get-by-id for which the repository returned (nil, nil): answered 404.
C26_Witness ==
    /\ last.handler = "GetUser"
    /\ last.calls = <<"GetUser">>
    /\ last.err = NoErr
    /\ last.status = 404
    /\ last.body = ResponseBody(MsgNotFound)

\* The sentinel of a repository result r stays below the usecase result u.
SentinelKept(r, u) ==
    /\ r.err # NoErr => (r.ret = -1 /\ u.ret = ZeroUser /\ u.err = r.err)
    /\ r.err = NoErr => (r.ret > 0 /\ u.ret.ID = r.ret)

\* C29: on the store as it stands and for every body, the repository's create
\* returns -1 with every error, and the usecase then returns the zero User
\* with that error; no response body carries user_id -1 and a create whose
\* usecase call failed is not answered 201.
C29_SentinelNeverEscapes ==
    /\ \A b \in Bodies, landed \in BOOLEAN :
          SentinelKept(RepoCreateUser(catalog, schema, health, tables, serial,
                                      BindJSON(b).user, landed),
                       UsecaseCreateUser(catalog, schema, health, tables, serial,
                                         BindJSON(b).user, landed))
    /\ last.body.t = "model.User" => last.body.user.ID # -1
    /\ last.body.t = "array"
       => \A i \in DOMAIN last.body.elems : last.body.elems[i].ID # -1
    /\ (last.handler = "CreateUser" /\ last.err # NoErr) => last.status = 500

\* A create whose insert failed: the repository returned -1, the answer is 500
\* with the error.
C29_Witness ==
    /\ last.handler = "CreateUser"
    /\ last.err # NoErr
    /\ last.status = 500
    /\ last.body = ErrorBody(last.err)
    /\ RepoCreateUser(catalog, schema, last.health, last.before.tbl, last.before.ser,
                      BindJSON(last.req.body).user, FALSE).ret = -1

\* Request i of the serving process is a create answered 201.
Is201(i) ==
    /\ inflight[i].pc = "responded"
    /\ IsCreateReq(inflight[i].req)
    /\ inflight[i].status = 201

\* The row of relation user that the 201 response of request i describes.
RowOf(i) ==
    [user_id |-> IntCell(inflight[i].body.user.ID),
     user_name |-> TextCell(inflight[i].body.user.Name),
     user_email |-> TextCell(inflight[i].body.user.Email),
     user_imgurl |-> TextCell(inflight[i].body.user.ImgURL)]

\* C23: in the serving process, whatever the interleaving, the creates
\* answered 201 carry pairwise distinct user_ids, each carries the name, email
\* and img_url of its own request, and the row each describes is stored.
C23_ConcurrentCreatesIndependent ==
    \A i \in DOMAIN inflight :
       Is201(i)
       => /\ \A j \in DOMAIN inflight :
                (Is201(j) /\ i # j)
                => inflight[i].body.user.ID # inflight[j].body.user.ID
          /\ inflight[i].body.user.Name = BindJSON(inflight[i].req.body).user.Name
          /\ inflight[i].body.user.Email = BindJSON(inflight[i].req.body).user.Email
          /\ inflight[i].body.user.ImgURL = BindJSON(inflight[i].req.body).user.ImgURL
          /\ \E k \in DOMAIN tables["user"] : tables["user"][k] = RowOf(i)

\* Two creates in flight together, both answered 201, the one accepted later
\* served first by the store.
C23_Witness ==
    /\ Len(inflight) = 2
    /\ Is201(1)
    /\ Is201(2)
    /\ inflight[2].body.user.ID < inflight[1].body.user.ID
    /\ inflight[1].req.body # inflight[2].req.body

\* C27: a process whose ConnectDB failed has panicked with nothing
\* constructed, no route registered and no request accepted, and stays so;
\* the components are constructed only on a live connection, and requests are
\* accepted only by a listening process that has one.
C27_NoServiceWithoutConnection ==
    /\ [](/\ proc.pc = "panicked"
             => (~proc.conn /\ ~proc.wired /\ ~proc.routed /\ inflight = <<>>)
          /\ proc.wired => proc.conn
          /\ inflight # <<>> => (proc.pc = "listening" /\ proc.conn /\ proc.routed))
    /\ [][proc.pc = "panicked" => (proc' = proc /\ inflight' = inflight)]_vars

\* The store was down at startup: the process has panicked.
C27_Witness ==
    /\ proc.pc = "panicked"
    /\ ~proc.routed
    /\ inflight = <<>>

\* C28: under the fairness of SpecServe (every store call returns, every
\* handler step is taken), every accepted request is eventually answered; and
\* a request that is accepted or blocked in its store call has no response.
C28_EveryRequestAnswered ==
    /\ \A i \in 1..MaxRequests :
          (i \in DOMAIN inflight)
             ~> (i \in DOMAIN inflight /\ inflight[i].pc = "responded"
                 /\ inflight[i].status # 0)
    /\ [](\A i \in DOMAIN inflight :
             inflight[i].pc \in {"accepted", "calling"} => inflight[i].status = 0)

\* The first request is still blocked in its store call, without a response,
\* while the second has been answered.
C28_Witness ==
    /\ Len(inflight) = 2
    /\ inflight[1].pc = "calling"
    /\ inflight[1].status = 0
    /\ inflight[2].pc = "responded"
    /\ inflight[2].status # 0

====
